---- MODULE Spec2Model ----
(***************************************************************************)
(* KACAFE: stock ledger, sale recording and purchase-order lifecycle.      *)
(* The tables of database/db.py are the state; every service function of   *)
(* services/*.py is one action that runs inside one SQLite transaction.    *)
(* REAL columns are modelled as integers.                                  *)
(***************************************************************************)
EXTENDS Integers, Sequences, FiniteSets, TLC

VARIABLES current_stock, safety_stock, products, product_material_map,
          sales, purchase_orders, cart_store, result, calls

vars == <<current_stock, safety_stock, products, product_material_map,
          sales, purchase_orders, cart_store, result, calls>>

(* ---------------------------- bounds ----------------------------------- *)
MaxStock == 2
MaxDelivered == 2
MaxSales == 2

(* ---------------------------- reference data --------------------------- *)
Materials == {1, 2}
Vendors == {1}
ProductIds == {1, 2}

(* the ids a caller may pass: the rows above and an id of no row *)
AnyMaterialId == Materials \cup {9}
AnyVendorId == Vendors \cup {9}
AnyProductId == ProductIds \cup {9}

Max(a, b) == IF a >= b THEN a ELSE b

Abs(a) == IF a >= 0 THEN a ELSE 0 - a

(* the value every service returns: a dict with success, message and the   *)
(* operation's own keys; the operation and its arguments are kept with it, *)
(* and undone counts the writes a rollback discarded                       *)
NoResult ==
    [op |-> "none", success |-> FALSE, message |-> "", id |-> 0, qty |-> 0,
     cart |-> <<>>, undone |-> 0, total |-> 0,
     transaction_ref |-> 0, low_stock |-> <<>>, status |-> "", remaining |-> 0,
     listing |-> <<>>, at_risk |-> {}, worst |-> <<>>, ingredients |-> <<>>,
     vendor_id |-> 0, unit_cost |-> 0]

(* ---------------------------- inventory_service ------------------------ *)
below_half_inclusive(stock, safety) == 2 * stock <= safety

(* "Critical" if r["current_stock"] < r["safety_stock"] * 0.5: the product  *)
(* by 0.5 is exact, so the test is 2 x current_stock < safety_stock         *)
below_half(stock, safety) == 2 * stock < safety

material_status_strict_low(stock, safety) ==
    IF below_half(stock, safety) THEN "Critical"
    ELSE IF stock < safety THEN "Low" ELSE "OK"

(* the lambda applied to every row of the materials table *)
material_status(stock, safety) ==
    IF below_half(stock, safety) THEN "Critical"
    ELSE IF stock <= safety THEN "Low" ELSE "OK"

(* SELECT * FROM materials ORDER BY name, with the status column added *)
get_inventory_df ==
    /\ result' = [NoResult EXCEPT
                    !.op = "get_inventory_df",
                    !.listing = [m \in Materials |->
                                    material_status(current_stock[m],
                                                    safety_stock[m])]]
    /\ UNCHANGED <<current_stock, safety_stock, products,
                   product_material_map, sales, purchase_orders, cart_store,
                   calls>>

adjusted_stock_unclamped(stock, adjustment) == stock + adjustment

(* UPDATE materials SET current_stock = MAX(0, current_stock + ?) WHERE id=? *)
adjusted_stock(stock, adjustment) == Max(0, stock + adjustment)

adjust_stock(material_id, adjustment) ==
    /\ material_id \in Materials =>
           Abs(adjusted_stock(current_stock[material_id], adjustment))
               <= MaxStock
    /\ current_stock' =
           [m \in Materials |->
               IF m = material_id
               THEN adjusted_stock(current_stock[m], adjustment)
               ELSE current_stock[m]]
    /\ result' = [NoResult EXCEPT !.op = "adjust_stock", !.success = TRUE,
                                  !.message = "Stock adjusted",
                                  !.id = material_id, !.qty = adjustment]
    /\ UNCHANGED <<products, product_material_map,
                   safety_stock, sales, purchase_orders,
                   cart_store, calls>>

(* ---------------------------- procurement_service ---------------------- *)
(* materials.cost_per_unit; material 2 has none configured *)
cost_per_unit == [m \in Materials |-> IF m = 1 THEN 2 ELSE 0]

order_unit_cost_as_given(unit_cost, material_id) == unit_cost

(* if unit_cost <= 0: unit_cost = material["cost_per_unit"] or 0.0 *)
order_unit_cost(unit_cost, material_id) ==
    IF unit_cost <= 0 THEN cost_per_unit[material_id] ELSE unit_cost

(* unit_cost = 0 is the default of the parameter: the cost was omitted *)
create_purchase_order(vendor_id, material_id, qty_ordered, unit_cost) ==
    IF vendor_id \notin Vendors \/ material_id \notin Materials
    THEN /\ result' = [NoResult EXCEPT !.op = "create_purchase_order",
                                       !.message = "Invalid vendor or material",
                                       !.id = material_id, !.qty = qty_ordered,
                                       !.vendor_id = vendor_id,
                                       !.unit_cost = unit_cost]
         /\ UNCHANGED <<current_stock, products, product_material_map,
                        safety_stock, sales,
                        purchase_orders, cart_store, calls>>
    ELSE /\ purchase_orders' = Append(purchase_orders,
                [vendor_id |-> vendor_id, material_id |-> material_id,
                 qty_ordered |-> qty_ordered, qty_delivered |-> 0,
                 remaining_qty |-> qty_ordered, status |-> "Initiated",
                 delivered_at |-> "NULL",
                 unit_cost |-> order_unit_cost(unit_cost, material_id),
                 total_cost |-> qty_ordered
                                  * order_unit_cost(unit_cost, material_id)])
         /\ result' = [NoResult EXCEPT !.op = "create_purchase_order",
                                       !.success = TRUE,
                                       !.message = "PO created",
                                       !.id = material_id, !.qty = qty_ordered,
                                       !.vendor_id = vendor_id,
                                       !.unit_cost = unit_cost]
         /\ UNCHANGED <<current_stock, products, product_material_map,
                        safety_stock, sales,
                        cart_store, calls>>

delivery_rejected_only_delivered(po) == po.status = "Delivered"

(* if po["status"] in ("Delivered", "Cancelled"): return failure *)
delivery_rejected(po) == po.status \in {"Delivered", "Cancelled"}

(* new_status = "Delivered" if new_remaining == 0 else "Partially Delivered" *)
delivery_status(new_remaining) ==
    IF new_remaining = 0 THEN "Delivered" ELSE "Partially Delivered"

delivered_po_unclamped(po, qty_received) ==
    LET new_delivered == po.qty_delivered + qty_received
        new_remaining == po.qty_ordered - new_delivered
        new_status    == delivery_status(new_remaining)
    IN  [po EXCEPT !.qty_delivered = new_delivered,
                   !.remaining_qty = new_remaining,
                   !.status = new_status,
                   !.delivered_at = IF new_status = "Delivered"
                                    THEN "CURRENT_TIMESTAMP" ELSE @]

(* the row written by the UPDATE purchase_orders statement *)
delivered_po(po, qty_received) ==
    LET new_delivered == po.qty_delivered + qty_received
        new_remaining == Max(0, po.qty_ordered - new_delivered)
        new_status    == delivery_status(new_remaining)
    IN  [po EXCEPT !.qty_delivered = new_delivered,
                   !.remaining_qty = new_remaining,
                   !.status = new_status,
                   !.delivered_at = IF new_status = "Delivered"
                                    THEN "CURRENT_TIMESTAMP" ELSE @]

(* UPDATE materials SET current_stock = current_stock + ? WHERE id=? *)
received_stock(stock, qty_received) == stock + qty_received

update_po_delivery(po_id, qty_received) ==
    IF po_id \notin DOMAIN purchase_orders
    THEN /\ result' = [NoResult EXCEPT !.op = "update_po_delivery",
                                       !.message = "PO not found",
                                       !.id = po_id, !.qty = qty_received]
         /\ UNCHANGED <<current_stock, products, product_material_map,
                        safety_stock, sales,
                        purchase_orders, cart_store, calls>>
    ELSE LET po == purchase_orders[po_id] IN
         IF delivery_rejected(po)
         THEN /\ result' = [NoResult EXCEPT !.op = "update_po_delivery",
                                !.message = "Cannot receive delivery",
                                !.id = po_id, !.qty = qty_received,
                                !.status = po.status]
              /\ UNCHANGED <<current_stock, products, product_material_map,
                             safety_stock,
                             sales, purchase_orders, cart_store, calls>>
         ELSE LET new_po == delivered_po(po, qty_received)
                  new_stock == received_stock(current_stock[po.material_id],
                                              qty_received)
              IN  /\ Abs(new_po.qty_delivered) <= MaxDelivered
                  /\ Abs(new_stock) <= MaxStock
                  /\ purchase_orders' =
                         [purchase_orders EXCEPT ![po_id] = new_po]
                  /\ current_stock' =
                         [current_stock EXCEPT ![po.material_id] = new_stock]
                  /\ result' = [NoResult EXCEPT !.op = "update_po_delivery",
                                    !.success = TRUE, !.message = "Received",
                                    !.id = po_id, !.qty = qty_received,
                                    !.status = new_po.status,
                                    !.remaining = new_po.remaining_qty]
                  /\ UNCHANGED <<products, product_material_map,
                                 safety_stock, sales,
                                 cart_store, calls>>

cancel_never_rejected(po) == FALSE

(* if po["status"] == "Delivered": return failure *)
cancel_rejected(po) == po.status = "Delivered"

cancelled_po_closed(po) == [po EXCEPT !.status = "Cancelled",
                                      !.remaining_qty = 0]

(* UPDATE purchase_orders SET status='Cancelled' WHERE id=? *)
cancelled_po(po) == [po EXCEPT !.status = "Cancelled"]

cancel_po(po_id) ==
    IF po_id \notin DOMAIN purchase_orders
    THEN /\ result' = [NoResult EXCEPT !.op = "cancel_po",
                                       !.message = "PO not found", !.id = po_id]
         /\ UNCHANGED <<current_stock, products, product_material_map,
                        safety_stock, sales,
                        purchase_orders, cart_store, calls>>
    ELSE IF cancel_rejected(purchase_orders[po_id])
         THEN /\ result' = [NoResult EXCEPT !.op = "cancel_po",
                                !.message = "Cannot cancel a delivered PO",
                                !.id = po_id]
              /\ UNCHANGED <<current_stock, products, product_material_map,
                             safety_stock,
                             sales, purchase_orders, cart_store, calls>>
         ELSE /\ purchase_orders' =
                     [purchase_orders EXCEPT ![po_id] = cancelled_po(@)]
              /\ result' = [NoResult EXCEPT !.op = "cancel_po",
                                !.success = TRUE, !.message = "PO cancelled",
                                !.id = po_id]
              /\ UNCHANGED <<current_stock, products, product_material_map,
                             safety_stock,
                             sales, cart_store, calls>>

(* ---------------------------- menu_service ----------------------------- *)
(* UPDATE products SET price=? WHERE id=? *)
update_product_price(product_id, price) ==
    /\ products' = [p \in DOMAIN products |->
                       IF p = product_id /\ products[p].exists
                       THEN [products[p] EXCEPT !.price = price]
                       ELSE products[p]]
    /\ result' = [NoResult EXCEPT !.op = "update_product_price",
                                  !.success = TRUE, !.message = "Price updated",
                                  !.id = product_id]
    /\ UNCHANGED <<current_stock, product_material_map, safety_stock, sales,
                   purchase_orders, cart_store, calls>>

(* ---------------------------- sales_service ---------------------------- *)
product_lookup_skipped(product_id) == TRUE

(* SELECT id FROM products WHERE id=? *)
product_exists(product_id) ==
    product_id \in DOMAIN products /\ products[product_id].exists

(* rows of product_material_map JOIN materials for one product *)
recipe_rows(product_id) ==
    {r \in product_material_map : r.product_id = product_id}

(* transaction_ref = str(uuid.uuid4())[:8].upper(): a fresh non-null value *)
RECURSIVE max_ref(_)
max_ref(lines) ==
    IF lines = <<>> THEN 0
    ELSE Max(Head(lines).transaction_ref, max_ref(Tail(lines)))

new_transaction_ref == max_ref(sales) + 1

sold_stock_unclamped(stock, deduct) == stock - deduct

(* new_stock = max(0.0, row["current_stock"] - deduct) *)
sold_stock(stock, deduct) == Max(0, stock - deduct)

low_stock_alert_repeated(alerts, material_id, new_stock) ==
    IF new_stock <= safety_stock[material_id]
    THEN Append(alerts, material_id) ELSE alerts

(* if new_stock <= row["safety_stock"] and row["mat_name"] not in           *)
(* low_stock_alerts: low_stock_alerts.append(row["mat_name"])               *)
low_stock_alert(alerts, material_id, new_stock) ==
    IF /\ new_stock <= safety_stock[material_id]
       /\ \A i \in DOMAIN alerts : alerts[i] # material_id
    THEN Append(alerts, material_id) ELSE alerts

(* the inner loop "for row in cur.fetchall()": rows were fetched before the *)
(* first UPDATE of this product, so current_stock is read from the fetch    *)
RECURSIVE deduct_materials(_, _, _, _)
deduct_materials(st, rows, fetched, qty) ==
    IF rows = {} \/ st.failed THEN st
    ELSE LET row == CHOOSE r \in rows :
                        \A o \in rows : r.material_id <= o.material_id
             deduct == row.quantity_required * qty
             new_stock == sold_stock(fetched[row.material_id], deduct)
         IN  IF st.writes + 1 = st.fail_at
             THEN [st EXCEPT !.failed = TRUE]
             ELSE deduct_materials(
                    [st EXCEPT
                       !.stock[row.material_id] = new_stock,
                       !.writes = @ + 1,
                       !.low_stock_alerts =
                           low_stock_alert(@, row.material_id, new_stock)],
                    rows \ {row}, fetched, qty)

cart_sale_line_unit_total(item, transaction_ref) ==
    [product_id |-> item.product_id, quantity |-> item.qty,
     unit_price |-> item.price, total_amount |-> item.price,
     transaction_ref |-> transaction_ref]

(* the INSERT INTO sales statement of record_cart_sale *)
cart_sale_line(item, transaction_ref) ==
    [product_id |-> item.product_id, quantity |-> item.qty,
     unit_price |-> item.price, total_amount |-> item.price * item.qty,
     transaction_ref |-> transaction_ref]

(* one iteration of "for pid_str, item in cart_items.items()" *)
sell_entry(st, item) ==
    LET st1 == [st EXCEPT !.grand_total = @ + item.price * item.qty]
    IN  IF ~ product_exists(item.product_id) THEN st1
        ELSE IF st1.writes + 1 = st1.fail_at
        THEN [st1 EXCEPT !.failed = TRUE]
        ELSE LET st2 == [st1 EXCEPT
                           !.sales = Append(@, cart_sale_line(item,
                                                  st.transaction_ref)),
                           !.writes = @ + 1]
             IN  deduct_materials(st2, recipe_rows(item.product_id),
                                  st2.stock, item.qty)

RECURSIVE sell_cart(_, _)
sell_cart(st, items) ==
    IF items = <<>> \/ st.failed THEN st
    ELSE sell_cart(sell_entry(st, Head(items)), Tail(items))

cart_never_empty(cart_items) == FALSE

(* if not cart_items: return failure *)
cart_is_empty(cart_items) == cart_items = <<>>

not_rolled_back(before, working) == working

(* conn.rollback(): the tables are as they were when the transaction began *)
rolled_back(before, working) == before

(* fail_at = n > 0: the n-th INSERT/UPDATE of the call raises an exception; *)
(* the call reads and writes the tables materials and sales only; the       *)
(* result keeps the number of cart entries the call was given               *)
record_cart_sale(cart_items, fail_at) ==
    IF cart_is_empty(cart_items)
    THEN /\ fail_at = 0
         /\ result' = [NoResult EXCEPT !.op = "record_cart_sale",
                                       !.message = "Cart is empty",
                                       !.qty = Len(cart_items)]
         /\ UNCHANGED <<current_stock, sales>>
    ELSE LET before == [stock |-> current_stock, sales |-> sales]
             st == sell_cart([stock |-> current_stock, sales |-> sales,
                              transaction_ref |-> new_transaction_ref,
                              grand_total |-> 0, low_stock_alerts |-> <<>>,
                              writes |-> 0, fail_at |-> fail_at,
                              failed |-> FALSE], cart_items)
         IN  IF st.failed
             THEN LET db == rolled_back(before,
                               [stock |-> st.stock, sales |-> st.sales])
                  IN  /\ current_stock' = db.stock
                      /\ sales' = db.sales
                      /\ result' = [NoResult EXCEPT
                                      !.op = "record_cart_sale",
                                      !.message = "exception",
                                      !.qty = Len(cart_items),
                                      !.undone = st.writes]
             ELSE /\ fail_at = 0
                  /\ current_stock' = st.stock
                  /\ sales' = st.sales
                  /\ result' = [NoResult EXCEPT
                                  !.op = "record_cart_sale",
                                  !.success = TRUE,
                                  !.message = "Sale recorded",
                                  !.qty = Len(cart_items),
                                  !.cart = cart_items,
                                  !.total = st.grand_total,
                                  !.transaction_ref = st.transaction_ref,
                                  !.low_stock = st.low_stock_alerts]

(* the loop "for row in mappings" of record_sale: no duplicate check *)
RECURSIVE deduct_mappings(_, _, _, _)
deduct_mappings(st, rows, fetched, quantity) ==
    IF rows = {} THEN st
    ELSE LET row == CHOOSE r \in rows :
                        \A o \in rows : r.material_id <= o.material_id
             new_stock == Max(0, fetched[row.material_id]
                                   - row.quantity_required * quantity)
         IN  deduct_mappings(
                [st EXCEPT
                   !.stock[row.material_id] = new_stock,
                   !.low_stock_alerts =
                       IF new_stock <= safety_stock[row.material_id]
                       THEN Append(@, row.material_id) ELSE @],
                rows \ {row}, fetched, quantity)

record_sale(product_id, quantity) ==
    IF ~ product_exists(product_id)
    THEN /\ result' = [NoResult EXCEPT !.op = "record_sale",
                                       !.message = "Product not found",
                                       !.id = product_id, !.qty = quantity]
         /\ UNCHANGED <<current_stock, products, product_material_map,
                        safety_stock, sales,
                        purchase_orders, cart_store, calls>>
    ELSE LET product == products[product_id]
             total == product.price * quantity
             line == [product_id |-> product_id, quantity |-> quantity,
                      unit_price |-> product.price, total_amount |-> total,
                      transaction_ref |-> new_transaction_ref]
             st == deduct_mappings([stock |-> current_stock,
                                    low_stock_alerts |-> <<>>],
                                   recipe_rows(product_id), current_stock,
                                   quantity)
         IN  /\ current_stock' = st.stock
             /\ sales' = Append(sales, line)
             /\ result' = [NoResult EXCEPT !.op = "record_sale",
                                           !.success = TRUE,
                                           !.message = "Sale recorded",
                                           !.id = product_id,
                                           !.qty = quantity,
                                           !.total = total,
                                           !.low_stock = st.low_stock_alerts]
             /\ UNCHANGED <<products, product_material_map,
                            safety_stock, purchase_orders,
                            cart_store, calls>>

(* ---------------------------- menu_service: recipes -------------------- *)
insert_never_rejected(rows, product_id, item) == FALSE

(* the INSERT raises IntegrityError: UNIQUE(product_id, material_id), or a  *)
(* reference to a missing product or material under PRAGMA foreign_keys=ON  *)
insert_rejected(rows, product_id, item) ==
    \/ ~ product_exists(product_id)
    \/ item.material_id \notin Materials
    \/ \E r \in rows : /\ r.product_id = product_id
                       /\ r.material_id = item.material_id

(* the loop "for item in ingredients" *)
RECURSIVE insert_ingredients(_, _, _)
insert_ingredients(st, product_id, ingredients) ==
    IF ingredients = <<>> \/ st.failed THEN st
    ELSE LET item == Head(ingredients)
         IN  IF insert_rejected(st.rows, product_id, item)
             THEN [st EXCEPT !.failed = TRUE]
             ELSE insert_ingredients(
                    [st EXCEPT !.rows = @ \cup
                        {[product_id |-> product_id,
                          material_id |-> item.material_id,
                          quantity_required |-> item.quantity]}],
                    product_id, Tail(ingredients))

(* DELETE FROM product_material_map WHERE product_id=?, then the INSERTs;   *)
(* a failure rolls both back                                                *)
saved_recipe(rows, product_id, ingredients) ==
    LET st == insert_ingredients(
                  [rows |-> {r \in rows : r.product_id # product_id},
                   failed |-> FALSE], product_id, ingredients)
    IN  [failed |-> st.failed,
         rows |-> IF st.failed THEN rolled_back(rows, st.rows) ELSE st.rows]

save_recipe(product_id, ingredients) ==
    LET saved == saved_recipe(product_material_map, product_id, ingredients)
    IN  /\ product_material_map' = saved.rows
        /\ result' = [NoResult EXCEPT
                        !.op = "save_recipe",
                        !.success = ~ saved.failed,
                        !.message = IF saved.failed THEN "exception"
                                    ELSE "Recipe saved",
                        !.id = product_id,
                        !.qty = Len(ingredients),
                        !.ingredients = ingredients]
        /\ UNCHANGED <<current_stock, safety_stock, products, sales,
                       purchase_orders, cart_store, calls>>

(* ---------------------------- menu_callbacks --------------------------- *)
(* if not product_id or not working: "No ingredients to save." *)
owner_save_recipe(product_id, working) ==
    IF working = <<>>
    THEN /\ result' = [NoResult EXCEPT
                         !.op = "owner_save_recipe",
                         !.message = "No ingredients to save.",
                         !.id = product_id]
         /\ UNCHANGED <<current_stock, safety_stock, products,
                        product_material_map, sales, purchase_orders,
                        cart_store, calls>>
    ELSE save_recipe(product_id, working)

(* ---------------------------- the at-risk projector -------------------- *)
at_risk_below_safety(stock, safety) == stock < safety

(* WHERE m.current_stock <= m.safety_stock *)
at_risk(stock, safety) == stock <= safety

(* CASE WHEN m.current_stock < m.safety_stock * 0.5 THEN 'Critical'         *)
(* ELSE 'Low' END                                                           *)
at_risk_status(stock, safety) ==
    IF 2 * stock < safety THEN "Critical" ELSE "Low"

(* products JOIN product_material_map JOIN materials, one row per product   *)
(* and material; the ids stand for the names the query selects              *)
at_risk_rows ==
    {[product_id |-> r.product_id, material_id |-> r.material_id,
      material_status |-> at_risk_status(current_stock[r.material_id],
                                         safety_stock[r.material_id])] :
        r \in {x \in product_material_map :
                  /\ product_exists(x.product_id)
                  /\ x.material_id \in Materials
                  /\ at_risk(current_stock[x.material_id],
                             safety_stock[x.material_id])}}

get_at_risk_products ==
    /\ result' = [NoResult EXCEPT !.op = "get_at_risk_products",
                                  !.at_risk = at_risk_rows]
    /\ UNCHANGED <<current_stock, safety_stock, products,
                   product_material_map, sales, purchase_orders, cart_store,
                   calls>>

worst_status_unanimous(statuses) ==
    IF statuses = {"Critical"} THEN "Critical" ELSE "Low"

(* lambda s: "Critical" if "Critical" in s.values else "Low" *)
worst_status(statuses) ==
    IF "Critical" \in statuses THEN "Critical" ELSE "Low"

(* atrisk_df.groupby("product_name")["material_status"].apply(...) *)
build_atrisk_panel(atrisk_df) ==
    [p \in {r.product_id : r \in atrisk_df} |->
        worst_status({r.material_status :
                         r \in {x \in atrisk_df : x.product_id = p}})]

(* the inventory page: the listing, the at-risk rows and the panel *)
update_owner_inventory ==
    /\ result' = [NoResult EXCEPT
                    !.op = "update_owner_inventory",
                    !.listing = [m \in Materials |->
                                    material_status(current_stock[m],
                                                    safety_stock[m])],
                    !.at_risk = at_risk_rows,
                    !.worst = build_atrisk_panel(at_risk_rows)]
    /\ UNCHANGED <<current_stock, safety_stock, products,
                   product_material_map, sales, purchase_orders, cart_store,
                   calls>>

(* ---------------------------- sales_callbacks -------------------------- *)
(* the cart-store: entries in insertion order, one per product id *)
cart_index(cart, product_id) ==
    {i \in DOMAIN cart : cart[i].product_id = product_id}

add_to_cart(product_id) ==
    /\ IF cart_index(cart_store, product_id) # {}
       THEN cart_store' =
                [i \in DOMAIN cart_store |->
                    IF cart_store[i].product_id = product_id
                    THEN [cart_store[i] EXCEPT !.qty = @ + 1]
                    ELSE cart_store[i]]
       ELSE /\ product_exists(product_id)
            /\ cart_store' = Append(cart_store,
                   [product_id |-> product_id,
                    price |-> products[product_id].price, qty |-> 1])
    /\ UNCHANGED <<current_stock, products, product_material_map,
                   safety_stock, sales,
                   purchase_orders, result, calls>>

emptied_below_zero(qty) == qty < 0

(* if cart[pid_str]["qty"] <= 0: del cart[pid_str] *)
emptied(qty) == qty <= 0

(* del cart[pid_str] *)
without_entry(cart, product_id) ==
    SelectSeq(cart, LAMBDA e : e.product_id # product_id)

with_qty(cart, product_id, qty) ==
    [i \in DOMAIN cart |->
        IF cart[i].product_id = product_id
        THEN [cart[i] EXCEPT !.qty = qty] ELSE cart[i]]

(* the buttons +, -, remove of one cart entry and the clear button; a click *)
(* on an entry that is not in the cart raises PreventUpdate                 *)
modify_cart(btn_type, product_id) ==
    /\ IF btn_type = "clear-cart-btn"
       THEN cart_store' = <<>>
       ELSE /\ cart_index(cart_store, product_id) # {}
            /\ LET qty == cart_store[CHOOSE i \in cart_index(cart_store,
                                                  product_id) : TRUE].qty
               IN  cart_store' =
                       IF btn_type = "cart-plus"
                       THEN with_qty(cart_store, product_id, qty + 1)
                       ELSE IF btn_type = "cart-minus"
                       THEN IF emptied(qty - 1)
                            THEN without_entry(cart_store, product_id)
                            ELSE with_qty(cart_store, product_id, qty - 1)
                       ELSE without_entry(cart_store, product_id)
    /\ UNCHANGED <<current_stock, safety_stock, products,
                   product_material_map, sales, purchase_orders, result, calls>>

(* int(triggered_val) of a typed number given in halves: truncation *)
int_of_halves(halves) ==
    IF halves >= 0 THEN halves \div 2 ELSE 0 - ((0 - halves) \div 2)

(* the typed quantity of one cart entry; a value equal to the stored one or *)
(* an entry that is not in the cart raises PreventUpdate                    *)
update_cart_qty(product_id, halves) ==
    /\ cart_index(cart_store, product_id) # {}
    /\ LET new_qty == int_of_halves(halves)
           qty == cart_store[CHOOSE i \in cart_index(cart_store,
                                              product_id) : TRUE].qty
       IN  /\ new_qty # qty
           /\ cart_store' = IF new_qty <= 0
                            THEN without_entry(cart_store, product_id)
                            ELSE with_qty(cart_store, product_id, new_qty)
    /\ UNCHANGED <<current_stock, safety_stock, products,
                   product_material_map, sales, purchase_orders, result, calls>>

complete_sale(fail_at) ==
    /\ cart_store # <<>>
    /\ record_cart_sale(cart_store, fail_at)
    /\ cart_store' = IF result'.success THEN <<>> ELSE cart_store
    /\ UNCHANGED <<products, product_material_map,
                   safety_stock, purchase_orders, calls>>

(* ---------------------------- concurrent callers ----------------------- *)
(* every request runs a service call on a connection of its own; calls     *)
(* holds, per session, the call in flight: its position, its arguments and *)
(* what it has read so far                                                 *)
Sessions == {1, 2}

NoRow ==
    [vendor_id |-> 0, material_id |-> 0, qty_ordered |-> 0,
     qty_delivered |-> 0, remaining_qty |-> 0, status |-> "",
     delivered_at |-> "NULL", unit_cost |-> 0, total_cost |-> 0]

NoItem == [product_id |-> 0, price |-> 0, qty |-> 0]

Idle ==
    [op |-> "idle", pc |-> "idle", id |-> 0, qty |-> 0, item |-> NoItem,
     po |-> NoRow, fetched |-> <<>>]

(* a connection holds the write lock of the database file from its first   *)
(* INSERT or UPDATE until commit or rollback; a SELECT outside a            *)
(* transaction takes no lasting lock                                        *)
lock_holders == {s \in Sessions : calls[s].pc \in {"select", "update"}}

lock_always_free(s) == TRUE

lock_free(s) == lock_holders \ {s} = {}

(* record_cart_sale with a cart of one entry, statement by statement:      *)
(* SELECT id FROM products                                                 *)
sale_begin(s, item) ==
    /\ calls[s] = Idle
    /\ product_exists(item.product_id)
    /\ calls' = [calls EXCEPT ![s] =
                    [Idle EXCEPT !.op = "record_cart_sale", !.pc = "insert",
                                 !.item = item]]
    /\ UNCHANGED <<current_stock, safety_stock, products,
                   product_material_map, sales, purchase_orders, cart_store,
                   result>>

(* INSERT INTO sales: the implicit BEGIN and the write lock *)
sale_insert(s) ==
    /\ calls[s].pc = "insert"
    /\ lock_free(s)
    /\ calls' = [calls EXCEPT ![s].pc = "select"]
    /\ UNCHANGED <<current_stock, safety_stock, products,
                   product_material_map, sales, purchase_orders, cart_store,
                   result>>

(* INSERT INTO sales while another connection holds the lock until the     *)
(* busy timeout: "database is locked", rollback                            *)
sale_busy(s) ==
    /\ calls[s].pc = "insert"
    /\ ~ lock_free(s)
    /\ result' = [NoResult EXCEPT !.op = "record_cart_sale",
                                  !.message = "database is locked",
                                  !.qty = 1]
    /\ calls' = [calls EXCEPT ![s] = Idle]
    /\ UNCHANGED <<current_stock, safety_stock, products,
                   product_material_map, sales, purchase_orders, cart_store>>

(* SELECT ... m.current_stock ... WHERE pmm.product_id = ?; fetchall() *)
sale_select(s) ==
    /\ calls[s].pc = "select"
    /\ calls' = [calls EXCEPT ![s].pc = "update",
                              ![s].fetched = current_stock]
    /\ UNCHANGED <<current_stock, safety_stock, products,
                   product_material_map, sales, purchase_orders, cart_store,
                   result>>

(* the UPDATE materials statements, computed from the fetched rows, and    *)
(* conn.commit()                                                           *)
sale_commit(s) ==
    /\ calls[s].pc = "update"
    /\ LET item == calls[s].item
           ref == new_transaction_ref
           st == deduct_materials(
                     [stock |-> current_stock, writes |-> 0, fail_at |-> 0,
                      failed |-> FALSE, low_stock_alerts |-> <<>>],
                     recipe_rows(item.product_id), calls[s].fetched,
                     item.qty)
       IN  /\ current_stock' = st.stock
           /\ sales' = Append(sales, cart_sale_line(item, ref))
           /\ result' = [NoResult EXCEPT
                           !.op = "record_cart_sale",
                           !.success = TRUE,
                           !.message = "Sale recorded",
                           !.qty = 1,
                           !.cart = <<item>>,
                           !.total = item.price * item.qty,
                           !.transaction_ref = ref,
                           !.low_stock = st.low_stock_alerts]
    /\ calls' = [calls EXCEPT ![s] = Idle]
    /\ UNCHANGED <<safety_stock, products, product_material_map,
                   purchase_orders, cart_store>>

(* update_po_delivery: SELECT * FROM purchase_orders WHERE id=? and the    *)
(* checks on the row read                                                  *)
delivery_read(s, po_id, qty_received) ==
    /\ calls[s] = Idle
    /\ IF po_id \notin DOMAIN purchase_orders
       THEN /\ result' = [NoResult EXCEPT !.op = "update_po_delivery",
                                          !.message = "PO not found",
                                          !.id = po_id, !.qty = qty_received]
            /\ UNCHANGED calls
       ELSE IF delivery_rejected(purchase_orders[po_id])
       THEN /\ result' = [NoResult EXCEPT
                             !.op = "update_po_delivery",
                             !.message = "Cannot receive delivery",
                             !.id = po_id, !.qty = qty_received,
                             !.status = purchase_orders[po_id].status]
            /\ UNCHANGED calls
       ELSE /\ calls' = [calls EXCEPT ![s] =
                            [Idle EXCEPT !.op = "update_po_delivery",
                                         !.pc = "write", !.id = po_id,
                                         !.qty = qty_received,
                                         !.po = purchase_orders[po_id]]]
            /\ UNCHANGED result
    /\ UNCHANGED <<current_stock, safety_stock, products,
                   product_material_map, sales, purchase_orders, cart_store>>

(* UPDATE purchase_orders SET qty_delivered=?, remaining_qty=?, status=?,  *)
(* delivered_at=CASE ... with the values computed from the row read, then  *)
(* UPDATE materials SET current_stock = current_stock + ?, then commit     *)
delivery_write(s) ==
    /\ calls[s].op = "update_po_delivery"
    /\ calls[s].pc = "write"
    /\ lock_free(s)
    /\ LET c == calls[s]
           new == delivered_po(c.po, c.qty)
           new_stock == received_stock(current_stock[c.po.material_id],
                                       c.qty)
       IN  /\ Abs(new.qty_delivered) <= MaxDelivered
           /\ Abs(new_stock) <= MaxStock
           /\ purchase_orders' =
                  [purchase_orders EXCEPT ![c.id] =
                      [@ EXCEPT !.qty_delivered = new.qty_delivered,
                                !.remaining_qty = new.remaining_qty,
                                !.status = new.status,
                                !.delivered_at =
                                    IF new.status = "Delivered"
                                    THEN "CURRENT_TIMESTAMP" ELSE @]]
           /\ current_stock' =
                  [current_stock EXCEPT ![c.po.material_id] = new_stock]
           /\ result' = [NoResult EXCEPT !.op = "update_po_delivery",
                             !.success = TRUE, !.message = "Received",
                             !.id = c.id, !.qty = c.qty,
                             !.status = new.status,
                             !.remaining = new.remaining_qty]
    /\ calls' = [calls EXCEPT ![s] = Idle]
    /\ UNCHANGED <<safety_stock, products, product_material_map, sales,
                   cart_store>>

(* cancel_po: SELECT status FROM purchase_orders WHERE id=? and the checks *)
cancel_read(s, po_id) ==
    /\ calls[s] = Idle
    /\ IF po_id \notin DOMAIN purchase_orders
       THEN /\ result' = [NoResult EXCEPT !.op = "cancel_po",
                                          !.message = "PO not found",
                                          !.id = po_id]
            /\ UNCHANGED calls
       ELSE IF cancel_rejected(purchase_orders[po_id])
       THEN /\ result' = [NoResult EXCEPT
                             !.op = "cancel_po",
                             !.message = "Cannot cancel a delivered PO",
                             !.id = po_id]
            /\ UNCHANGED calls
       ELSE /\ calls' = [calls EXCEPT ![s] =
                            [Idle EXCEPT !.op = "cancel_po", !.pc = "write",
                                         !.id = po_id,
                                         !.po = purchase_orders[po_id]]]
            /\ UNCHANGED result
    /\ UNCHANGED <<current_stock, safety_stock, products,
                   product_material_map, sales, purchase_orders, cart_store>>

(* UPDATE purchase_orders SET status='Cancelled' WHERE id=?, then commit *)
cancel_write(s) ==
    /\ calls[s].op = "cancel_po"
    /\ calls[s].pc = "write"
    /\ lock_free(s)
    /\ purchase_orders' =
           [purchase_orders EXCEPT ![calls[s].id] = cancelled_po(@)]
    /\ result' = [NoResult EXCEPT !.op = "cancel_po", !.success = TRUE,
                                  !.message = "PO cancelled",
                                  !.id = calls[s].id]
    /\ calls' = [calls EXCEPT ![s] = Idle]
    /\ UNCHANGED <<current_stock, safety_stock, products,
                   product_material_map, sales, cart_store>>

(* ---------------------------- inputs ----------------------------------- *)
Adjustments == -2 .. 2
QtyOrdered == 1 .. 2
QtyReceived == -1 .. 2
PoIds == {1, 2}
CartQtys == {1, 2}
Prices == {1, 2}
FailPoints == 0 .. 4
UnitCosts == -1 .. 2
RaceReceived == {1, 2}
CartButtons == {"cart-plus", "cart-minus", "cart-remove", "clear-cart-btn"}
TypedHalves == -2 .. 5
StockLevels == 0 .. 5
SafetyLevels == 1 .. 4

RecipeQtys == {1, 2}

Ingredients ==
    {[material_id |-> m, quantity |-> q] : m \in Materials, q \in RecipeQtys}
        \cup {[material_id |-> m, quantity |-> 1] :
                  m \in AnyMaterialId \ Materials}

(* ingredient lists of at most two entries *)
IngredientLists ==
    {<<>>} \cup {<<i>> : i \in Ingredients}
           \cup {<<p[1], p[2]>> : p \in Ingredients \X Ingredients}

(* the working list of the recipe editor holds a material at most once *)
WorkingLists ==
    {l \in IngredientLists :
        \A i, j \in DOMAIN l : l[i].material_id = l[j].material_id => i = j}

(* the seeded safety level of the specifications that do not vary it *)
SeedSafety == [m \in Materials |-> 1]

(* the price a direct caller passes for a product *)
ListPrice(product_id) == IF product_id = 2 THEN 2 ELSE 1

CartEntries ==
    {[product_id |-> p, price |-> ListPrice(p), qty |-> q] :
        p \in AnyProductId, q \in CartQtys}

(* carts of one or two entries, one entry per product id *)
Carts ==
    {<<>>} \cup {<<e>> : e \in CartEntries}
           \cup {<<p[1], p[2]>> :
                     p \in {q \in CartEntries \X CartEntries :
                                q[1].product_id # q[2].product_id}}

InitRecipe ==
    { [product_id |-> 1, material_id |-> 1, quantity_required |-> 1],
      [product_id |-> 1, material_id |-> 2, quantity_required |-> 2],
      [product_id |-> 2, material_id |-> 1, quantity_required |-> 1] }

InitDb ==
    /\ products = [p \in ProductIds |-> [exists |-> TRUE, price |-> p]]
    /\ product_material_map = InitRecipe
    /\ sales = <<>>
    /\ purchase_orders = <<>>
    /\ cart_store = <<>>
    /\ result = NoResult
    /\ calls = [s \in Sessions |-> Idle]

(* ---------------------------- the service calls ------------------------ *)
AdjustStock(ms, as) ==
    \E m \in ms, a \in as : adjust_stock(m, a)

CreatePurchaseOrder(ids, qs, costs) ==
    \E v \in AnyVendorId, m \in AnyMaterialId, q \in qs, c \in costs :
        /\ create_purchase_order(v, m, q, c)
        /\ DOMAIN purchase_orders' \subseteq ids

UpdatePoDelivery(ids) ==
    \E id \in ids, q \in QtyReceived : update_po_delivery(id, q)

CancelPo(ids) == \E id \in ids : cancel_po(id)

RecordCartSale(carts, cap) ==
    \E c \in carts, f \in FailPoints :
        /\ record_cart_sale(c, f)
        /\ Len(sales') <= cap
        /\ UNCHANGED <<products, product_material_map,
                       safety_stock, purchase_orders,
                       cart_store, calls>>

RecordSale(cap) ==
    \E p \in AnyProductId, q \in CartQtys :
        /\ record_sale(p, q)
        /\ Len(sales') <= cap

UpdateProductPrice ==
    \E p \in ProductIds, price \in Prices : update_product_price(p, price)

AddToCart ==
    \E p \in ProductIds :
        /\ add_to_cart(p)
        /\ \A i \in DOMAIN cart_store' : cart_store'[i].qty \in CartQtys

CompleteSale ==
    \E f \in FailPoints :
        /\ complete_sale(f)
        /\ Len(sales') <= MaxSales

GetInventoryDf == get_inventory_df

GetAtRiskProducts == get_at_risk_products

UpdateOwnerInventory == update_owner_inventory

(* ---------------------------- the stock listing ------------------------ *)
InitStatus ==
    /\ current_stock \in [Materials -> StockLevels]
    /\ safety_stock \in [Materials -> SafetyLevels]
    /\ InitDb

NextStatus == GetInventoryDf \/ GetAtRiskProducts \/ UpdateOwnerInventory

SpecStatus == InitStatus /\ [][NextStatus]_vars

(* ---------------------------- recipe management ------------------------ *)
SaveRecipe ==
    \E p \in AnyProductId, l \in IngredientLists : save_recipe(p, l)

OwnerSaveRecipe ==
    \E p \in ProductIds, l \in WorkingLists : owner_save_recipe(p, l)

InitMenu ==
    /\ current_stock = [m \in Materials |-> MaxStock]
    /\ safety_stock = SeedSafety
    /\ InitDb

NextMenu == SaveRecipe \/ OwnerSaveRecipe

SpecMenu == InitMenu /\ [][NextMenu]_vars

(* ---------------------------- manual adjustments ----------------------- *)
InitLedger ==
    /\ current_stock \in [Materials -> 0 .. MaxStock]
    /\ safety_stock = SeedSafety
    /\ InitDb

NextLedger == AdjustStock(AnyMaterialId, Adjustments)

SpecLedger == InitLedger /\ [][NextLedger]_vars

(* ---------------------------- ordering --------------------------------- *)
InitOrder ==
    /\ current_stock = [m \in Materials |-> 1]
    /\ safety_stock = SeedSafety
    /\ InitDb

NextOrder == CreatePurchaseOrder(PoIds, QtyOrdered, UnitCosts)

SpecOrder == InitOrder /\ [][NextOrder]_vars

(* ---------------------------- purchase-order lifecycle ----------------- *)
InitPO ==
    /\ current_stock \in [Materials -> 0 .. 1]
    /\ safety_stock = SeedSafety
    /\ InitDb

NextPO ==
    \/ CreatePurchaseOrder(PoIds, QtyOrdered, {0})
    \/ UpdatePoDelivery(PoIds)
    \/ CancelPo(PoIds)

SpecPO == InitPO /\ [][NextPO]_vars

(* ---------------------------- the sale engine -------------------------- *)
InitSale ==
    /\ current_stock \in [Materials -> {1, MaxStock}]
    /\ safety_stock \in [Materials -> {0, 1}]
    /\ InitDb

NextSale == RecordCartSale(Carts, MaxSales)

SpecSale == InitSale /\ [][NextSale]_vars

(* ---------------------------- the point of sale ------------------------ *)
InitPOS ==
    /\ current_stock = [m \in Materials |-> MaxStock]
    /\ safety_stock = SeedSafety
    /\ InitDb

NextPOS == AddToCart \/ UpdateProductPrice \/ CompleteSale

SpecPOS == InitPOS /\ [][NextPOS]_vars

(* ---------------------------- the cart --------------------------------- *)
ModifyCart ==
    \E b \in CartButtons, p \in ProductIds :
        /\ modify_cart(b, p)
        /\ \A i \in DOMAIN cart_store' :
               \E q \in CartQtys : cart_store'[i].qty <= q

UpdateCartQty ==
    \E p \in ProductIds, h \in TypedHalves :
        /\ update_cart_qty(p, h)
        /\ \A i \in DOMAIN cart_store' :
               \E q \in CartQtys : cart_store'[i].qty <= q

NextCart == AddToCart \/ ModifyCart \/ UpdateCartQty \/ CompleteSale

SpecCart == InitPOS /\ [][NextCart]_vars

(* ---------------------------- two cashiers ----------------------------- *)
RaceEntries == {e \in CartEntries : e.product_id \in ProductIds}

SaleBegin ==
    \E s \in Sessions, e \in RaceEntries :
        /\ sale_begin(s, e)
        /\ Len(sales) + Cardinality({t \in Sessions : calls[t] # Idle})
               < MaxSales

SaleInsert == \E s \in Sessions : sale_insert(s)

SaleBusy == \E s \in Sessions : sale_busy(s)

SaleSelect == \E s \in Sessions : sale_select(s)

SaleCommit == \E s \in Sessions : sale_commit(s)

NextRaceSale ==
    SaleBegin \/ SaleInsert \/ SaleBusy \/ SaleSelect \/ SaleCommit

SpecRaceSale == InitPOS /\ [][NextRaceSale]_vars

(* ---------------------------- two procurement users -------------------- *)
DeliveryRead ==
    \E s \in Sessions, q \in RaceReceived : delivery_read(s, 1, q)

DeliveryWrite == \E s \in Sessions : delivery_write(s)

CancelRead == \E s \in Sessions : cancel_read(s, 1)

CancelWrite == \E s \in Sessions : cancel_write(s)

InitRacePO ==
    /\ current_stock = [m \in Materials |-> 0]
    /\ safety_stock = SeedSafety
    /\ InitDb

NextRacePO ==
    \/ CreatePurchaseOrder({1}, {2}, {0})
    \/ DeliveryRead
    \/ DeliveryWrite
    \/ CancelRead
    \/ CancelWrite

SpecRacePO == InitRacePO /\ [][NextRacePO]_vars

(* ---------------------------- all stock writers ------------------------ *)
OneEntryCarts == {c \in Carts : Len(c) <= 1}

Init ==
    /\ current_stock = [m \in Materials |-> 1]
    /\ safety_stock = SeedSafety
    /\ InitDb

Next ==
    \/ AdjustStock(AnyMaterialId, {-1, 1})
    \/ RecordCartSale(OneEntryCarts, 1)
    \/ RecordSale(1)
    \/ CreatePurchaseOrder({1}, {2}, {0})
    \/ UpdatePoDelivery({1})
    \/ CancelPo({1})

Spec == Init /\ [][Next]_vars

(* ======================= properties ==================================== *)
(* the Sale lines a step appended to the sales table *)
NewLines == SubSeq(sales', Len(sales) + 1, Len(sales'))

CartSaleDone == result'.op = "record_cart_sale" /\ result'.success

DeliveryDone == result'.op = "update_po_delivery" /\ result'.success

(* C1: in every reachable state every material's current_stock is >= 0 *)
C1_StockNonNegative == \A m \in Materials : current_stock[m] >= 0

(* C2: a record_cart_sale that fails after it has written a Sale line or a  *)
(* stock update returns success = False, and the sales table and every      *)
(* current_stock are what they were before the call                         *)
C2_AllOrNothing ==
    [][ (result'.op = "record_cart_sale" /\ result'.undone > 0) =>
            /\ ~ result'.success
            /\ sales' = sales
            /\ current_stock' = current_stock ]_vars

C2_Witness ==
    /\ result.op = "record_cart_sale"
    /\ ~ result.success
    /\ result.undone >= 2

(* the deductions of material m by the lines, in the order of the lines *)
RECURSIVE C3_Fold(_, _, _)
C3_Fold(stock, lines, m) ==
    IF lines = <<>> THEN stock
    ELSE LET rows == {r \in product_material_map :
                         /\ r.product_id = Head(lines).product_id
                         /\ r.material_id = m}
         IN  C3_Fold(IF rows = {} THEN stock
                     ELSE LET r == CHOOSE x \in rows : TRUE
                          IN  Max(0, stock - r.quantity_required
                                               * Head(lines).quantity),
                     Tail(lines), m)

RECURSIVE C3_Sum(_, _)
C3_Sum(lines, m) ==
    IF lines = <<>> THEN 0
    ELSE LET rows == {r \in product_material_map :
                         /\ r.product_id = Head(lines).product_id
                         /\ r.material_id = m}
         IN  (IF rows = {} THEN 0
              ELSE (CHOOSE x \in rows : TRUE).quantity_required
                       * Head(lines).quantity)
             + C3_Sum(Tail(lines), m)

C3_Touched(lines, m) ==
    \E i \in DOMAIN lines : \E r \in product_material_map :
        r.product_id = lines[i].product_id /\ r.material_id = m

(* C3: after a successful record_cart_sale every material's stock is its    *)
(* prior value less quantity_required x quantity for each recorded line and *)
(* recipe entry, clamped at zero; shared materials take every deduction and *)
(* a material in no recorded product's recipe is unchanged                  *)
C3_Deduction ==
    [][ CartSaleDone =>
            \A m \in Materials :
                /\ current_stock'[m] = C3_Fold(current_stock[m], NewLines, m)
                /\ current_stock'[m] =
                       IF C3_Touched(NewLines, m)
                       THEN Max(0, current_stock[m] - C3_Sum(NewLines, m))
                       ELSE current_stock[m] ]_vars

C3_Witness ==
    /\ result.op = "record_cart_sale"
    /\ result.success
    /\ Len(sales) = 2
    /\ sales[1].transaction_ref = sales[2].transaction_ref
    /\ sales[1].product_id # sales[2].product_id
    /\ sales[1].quantity = 2
    /\ sales[2].quantity = 2
    /\ current_stock[1] = 0

C4_Kept(cart) ==
    SelectSeq(cart, LAMBDA e : product_exists(e.product_id))

(* C4: a successful record_cart_sale appends exactly one Sale line per cart *)
(* entry whose product exists, with total_amount = unit_price x quantity,   *)
(* all with the same non-null transaction_ref, the one in the result        *)
C4_OneLinePerEntry ==
    [][ CartSaleDone =>
            LET kept == C4_Kept(result'.cart)
            IN  /\ SubSeq(sales', 1, Len(sales)) = sales
                /\ Len(NewLines) = Len(kept)
                /\ result'.transaction_ref # 0
                /\ \A i \in DOMAIN NewLines :
                      /\ NewLines[i].product_id = kept[i].product_id
                      /\ NewLines[i].quantity = kept[i].qty
                      /\ NewLines[i].unit_price = kept[i].price
                      /\ NewLines[i].total_amount =
                             NewLines[i].unit_price * NewLines[i].quantity
                      /\ NewLines[i].transaction_ref =
                             result'.transaction_ref ]_vars

C4_Witness ==
    /\ result.op = "record_cart_sale"
    /\ result.success
    /\ Len(result.cart) = 2
    /\ \E i \in DOMAIN result.cart : ~ product_exists(result.cart[i].product_id)
    /\ \E i \in DOMAIN sales :
          /\ sales[i].transaction_ref = result.transaction_ref
          /\ sales[i].quantity = 2
          /\ sales[i].unit_price = 2

(* C5: every Sale line persisted by record_cart_sale has the unit_price of  *)
(* the product record at the time of the sale                               *)
C5_AuthoritativePrice ==
    [][ CartSaleDone =>
            \A i \in DOMAIN NewLines :
                NewLines[i].unit_price =
                    products[NewLines[i].product_id].price ]_vars

(* C6: a successful update_po_delivery(po, q) adds q to qty_delivered, sets *)
(* remaining_qty to max(0, ordered - delivered), status to Delivered when   *)
(* nothing remains and Partially Delivered otherwise, delivered_at exactly  *)
(* on Delivered, and accepts over-delivery                                  *)
C6_DeliveryEffect ==
    [][ DeliveryDone =>
            LET old == purchase_orders[result'.id]
                new == purchase_orders'[result'.id]
                q   == result'.qty
            IN  /\ old.status \in {"Initiated", "Partially Delivered"}
                /\ new.qty_ordered = old.qty_ordered
                /\ new.qty_delivered = old.qty_delivered + q
                /\ new.remaining_qty =
                       IF new.qty_delivered >= new.qty_ordered THEN 0
                       ELSE new.qty_ordered - new.qty_delivered
                /\ new.status =
                       IF new.qty_delivered >= new.qty_ordered
                       THEN "Delivered" ELSE "Partially Delivered"
                /\ (new.delivered_at # "NULL") <=> (new.status = "Delivered")
                /\ q > old.remaining_qty =>
                       new.status = "Delivered" /\ new.remaining_qty = 0
                /\ result'.status = new.status
                /\ result'.remaining = new.remaining_qty ]_vars

C6_Witness ==
    /\ result.op = "update_po_delivery"
    /\ result.success
    /\ purchase_orders[result.id].qty_delivered
           > purchase_orders[result.id].qty_ordered
    /\ purchase_orders[result.id].status = "Delivered"

(* C7: update_po_delivery on a Delivered or Cancelled PO and cancel_po on a *)
(* Delivered PO return success = False and leave every PO row and every     *)
(* current_stock unchanged                                                  *)
C7_TerminalRejected ==
    [][ /\ result'.id \in DOMAIN purchase_orders
        /\ \/ /\ result'.op = "update_po_delivery"
              /\ purchase_orders[result'.id].status
                     \in {"Delivered", "Cancelled"}
           \/ /\ result'.op = "cancel_po"
              /\ purchase_orders[result'.id].status = "Delivered"
        => /\ ~ result'.success
           /\ purchase_orders' = purchase_orders
           /\ current_stock' = current_stock ]_vars

C7_Witness ==
    /\ result.op = "update_po_delivery"
    /\ ~ result.success
    /\ result.id \in DOMAIN purchase_orders
    /\ purchase_orders[result.id].status = "Cancelled"
    /\ purchase_orders[result.id].qty_delivered > 0

(* C8: no call decreases the qty_delivered of a purchase order *)
C8_DeliveredMonotone ==
    [][ \A id \in DOMAIN purchase_orders :
            purchase_orders'[id].qty_delivered
                >= purchase_orders[id].qty_delivered ]_vars

C9_Allowed ==
    { <<"Initiated", "Partially Delivered">>, <<"Initiated", "Delivered">>,
      <<"Partially Delivered", "Delivered">>, <<"Initiated", "Cancelled">>,
      <<"Partially Delivered", "Cancelled">> }

(* C9: the status of a PO changes only along the listed transitions: a      *)
(* Delivered PO is never cancelled and no terminal PO is reopened           *)
C9_StatusTransitions ==
    [][ /\ \A id \in DOMAIN purchase_orders :
              \/ purchase_orders'[id].status = purchase_orders[id].status
              \/ <<purchase_orders[id].status, purchase_orders'[id].status>>
                     \in C9_Allowed
        /\ \A id \in DOMAIN purchase_orders' \ DOMAIN purchase_orders :
              purchase_orders'[id].status = "Initiated" ]_vars

C9_Witness ==
    \E id \in DOMAIN purchase_orders :
        /\ purchase_orders[id].status = "Cancelled"
        /\ purchase_orders[id].qty_delivered > 0

(* C10: a successful update_po_delivery(po, q) changes the stock exactly as *)
(* adjust_stock(material, +q) does: max(0, current_stock + q) for the PO's  *)
(* material, nothing for the others                                         *)
C10_DeliveryIsAdjust ==
    [][ DeliveryDone =>
            LET po == purchase_orders[result'.id]
            IN  current_stock' =
                    [m \in Materials |->
                        IF m = po.material_id
                        THEN adjusted_stock(current_stock[m], result'.qty)
                        ELSE current_stock[m]] ]_vars

AdjustDone == result'.op = "adjust_stock"

(* C11: adjust_stock(m, delta) on an existing material sets m's stock to    *)
(* max(0, current_stock + delta) and leaves every other material unchanged; *)
(* while the clamp is not reached a further adjustment adds up: the stock   *)
(* moves by the sum of the deltas                                           *)
C11_AdjustEffect ==
    [][ (AdjustDone /\ result'.id \in Materials) =>
            LET m == result'.id
                sum == current_stock[m] + result'.qty
            IN  /\ current_stock'[m] = IF sum >= 0 THEN sum ELSE 0
                /\ \A o \in Materials \ {m} :
                       current_stock'[o] = current_stock[o]
                /\ \A next \in Adjustments :
                       (sum >= 0 /\ sum + next >= 0) =>
                           adjusted_stock(current_stock'[m], next)
                               = current_stock[m] + result'.qty + next ]_vars

C11_Witness ==
    /\ result.op = "adjust_stock"
    /\ result.id \in Materials
    /\ result.qty = -1
    /\ current_stock[result.id] = 1

(* C12: adjust_stock with a material id that does not exist returns         *)
(* success = False and changes no material's stock                          *)
C12_MissingMaterialFails ==
    [][ (AdjustDone /\ result'.id \notin Materials) =>
            /\ ~ result'.success
            /\ current_stock' = current_stock ]_vars

ListingDone == result'.op = "get_inventory_df"

(* C13: for every pair of current_stock and safety_stock the status is      *)
(* Critical when current_stock < safety_stock x 0.5, Low when               *)
(* safety_stock x 0.5 <= current_stock <= safety_stock, and OK otherwise    *)
C13_StatusClasses ==
    [][ ListingDone =>
            \A m \in Materials :
                LET cs == current_stock[m]
                    ss == safety_stock[m]
                    status == result'.listing[m]
                    critical == 2 * cs < ss
                    low == ss <= 2 * cs /\ cs <= ss
                IN  /\ status \in {"Critical", "Low", "OK"}
                    /\ (status = "Critical") <=> critical
                    /\ (status = "Low") <=> low
                    /\ (status = "OK") <=> (~ critical /\ ~ low) ]_vars

C13_Witness ==
    /\ result.op = "get_inventory_df"
    /\ result.listing[1] = "Critical"
    /\ result.listing[2] = "OK"
    /\ current_stock[1] > 0

(* the first stock level above half of the safety level *)
C14_JustAboveHalf(cs, ss) == 2 * cs > ss /\ 2 * (cs - 1) <= ss

(* C14: a stock of exactly safety x 0.5 is Critical, just above it is Low,  *)
(* exactly the safety level is Low and just above the safety level is OK    *)
C14_Boundaries ==
    [][ ListingDone =>
            \A m \in Materials :
                LET cs == current_stock[m]
                    ss == safety_stock[m]
                    status == result'.listing[m]
                IN  /\ 2 * cs = ss => status = "Critical"
                    /\ C14_JustAboveHalf(cs, ss) => status = "Low"
                    /\ cs = ss => status = "Low"
                    /\ cs = ss + 1 => status = "OK" ]_vars

(* C14 as it holds: a stock of exactly safety x 0.5 is Low, not Critical;   *)
(* just above it is Low, exactly the safety level is Low and just above the *)
(* safety level is OK                                                       *)
C14_BoundariesHalfIsLow ==
    [][ ListingDone =>
            \A m \in Materials :
                LET cs == current_stock[m]
                    ss == safety_stock[m]
                    status == result'.listing[m]
                IN  /\ 2 * cs = ss => status = "Low"
                    /\ C14_JustAboveHalf(cs, ss) => status = "Low"
                    /\ cs = ss => status = "Low"
                    /\ cs = ss + 1 => status = "OK" ]_vars

C14_Witness ==
    /\ result.op = "get_inventory_df"
    /\ 2 * current_stock[1] = safety_stock[1]
    /\ result.listing[1] = "Low"
    /\ current_stock[2] = safety_stock[2] + 1
    /\ result.listing[2] = "OK"

(* C15: the low_stock list of a successful record_cart_sale holds, each at  *)
(* most once, exactly the materials the sale deducted whose stock after the *)
(* sale is <= their safety_stock, also for a material several entries use   *)
C15_LowStockList ==
    [][ CartSaleDone =>
            LET alerts == result'.low_stock
            IN  /\ \A i, j \in DOMAIN alerts : alerts[i] = alerts[j] => i = j
                /\ {alerts[i] : i \in DOMAIN alerts} =
                       {m \in Materials :
                           /\ C3_Touched(NewLines, m)
                           /\ current_stock'[m] <= safety_stock[m]} ]_vars

C15_Witness ==
    /\ result.op = "record_cart_sale"
    /\ result.success
    /\ Len(result.cart) = 2
    /\ \A i \in DOMAIN result.cart : result.cart[i].product_id \in ProductIds
    /\ safety_stock[1] = 1
    /\ result.low_stock = <<1, 2>>

C16_Missing(entry) ==
    \/ entry.product_id \notin DOMAIN products
    \/ ~ products[entry.product_id].exists

(* C16: a cart entry whose product no longer exists is skipped: the sale    *)
(* still succeeds, no Sale line is written and no stock deducted for that   *)
(* entry, and every other entry is recorded as usual                        *)
C16_MissingProductSkipped ==
    [][ result'.op = "record_cart_sale" =>
            /\ ~ result'.success =>
                   result'.message \in {"Cart is empty", "exception"}
            /\ result'.success =>
                   LET kept == SelectSeq(result'.cart,
                                         LAMBDA e : ~ C16_Missing(e))
                       lines == [i \in DOMAIN kept |->
                                    [product_id |-> kept[i].product_id,
                                     quantity |-> kept[i].qty]]
                   IN  /\ \A i \in DOMAIN NewLines :
                              NewLines[i].product_id \in DOMAIN products
                       /\ Len(NewLines) = Len(kept)
                       /\ \A i \in DOMAIN kept :
                              /\ NewLines[i].product_id = kept[i].product_id
                              /\ NewLines[i].quantity = kept[i].qty
                       /\ \A m \in Materials :
                              current_stock'[m] =
                                  C3_Fold(current_stock[m], lines, m) ]_vars

C16_Witness ==
    /\ result.op = "record_cart_sale"
    /\ result.success
    /\ Len(result.cart) = 2
    /\ C16_Missing(result.cart[1])
    /\ result.cart[2].product_id = 1
    /\ Len(sales) = 1
    /\ sales[1].product_id = 1
    /\ current_stock[2] = 0

(* C17: record_cart_sale with an empty cart returns success = False with    *)
(* the empty-cart message, writes no Sale line and changes no stock         *)
C17_EmptyCartFails ==
    [][ (result'.op = "record_cart_sale" /\ result'.qty = 0) =>
            /\ ~ result'.success
            /\ result'.message = "Cart is empty"
            /\ sales' = sales
            /\ current_stock' = current_stock ]_vars

C17_Witness ==
    /\ result.op = "record_cart_sale"
    /\ result.qty = 0
    /\ ~ result.success
    /\ Len(sales) >= 1

CancelCalled ==
    result'.op = "cancel_po" /\ result'.id \in DOMAIN purchase_orders

(* C18: cancel_po on a PO that is already Cancelled returns success = False *)
C18_CancelledNotCancelledAgain ==
    [][ (CancelCalled /\ purchase_orders[result'.id].status = "Cancelled")
            => ~ result'.success ]_vars

(* C19: in every reachable state the status of a PO that is not Cancelled   *)
(* is Initiated when qty_delivered = 0, Partially Delivered when            *)
(* 0 < qty_delivered < qty_ordered and Delivered when qty_delivered >=      *)
(* qty_ordered; two such POs with the same quantities have the same status  *)
C19_StatusByQuantities ==
    /\ \A id \in DOMAIN purchase_orders :
          LET po == purchase_orders[id]
          IN  po.status # "Cancelled" =>
                  /\ po.qty_delivered = 0 => po.status = "Initiated"
                  /\ (0 < po.qty_delivered
                          /\ po.qty_delivered < po.qty_ordered)
                         => po.status = "Partially Delivered"
                  /\ po.qty_delivered >= po.qty_ordered
                         => po.status = "Delivered"
    /\ \A a, b \in DOMAIN purchase_orders :
          ( /\ purchase_orders[a].status # "Cancelled"
            /\ purchase_orders[b].status # "Cancelled"
            /\ purchase_orders[a].qty_ordered = purchase_orders[b].qty_ordered
            /\ purchase_orders[a].qty_delivered
                   = purchase_orders[b].qty_delivered )
          => purchase_orders[a].status = purchase_orders[b].status

(* C20: a successful cancel_po changes only the status of that PO, to       *)
(* Cancelled: its quantities, every other PO and every material's stock are *)
(* as before                                                                *)
C20_CancelFrame ==
    [][ (CancelCalled /\ result'.success) =>
            LET old == purchase_orders[result'.id]
                new == purchase_orders'[result'.id]
            IN  /\ new.status = "Cancelled"
                /\ new.qty_delivered = old.qty_delivered
                /\ new.remaining_qty = old.remaining_qty
                /\ new.qty_ordered = old.qty_ordered
                /\ new.vendor_id = old.vendor_id
                /\ new.material_id = old.material_id
                /\ new.delivered_at = old.delivered_at
                /\ DOMAIN purchase_orders' = DOMAIN purchase_orders
                /\ \A id \in DOMAIN purchase_orders \ {result'.id} :
                       purchase_orders'[id] = purchase_orders[id]
                /\ current_stock' = current_stock ]_vars

C20_Witness ==
    /\ result.op = "cancel_po"
    /\ result.success
    /\ purchase_orders[result.id].status = "Cancelled"
    /\ purchase_orders[result.id].qty_delivered > 0
    /\ purchase_orders[result.id].remaining_qty > 0
    /\ current_stock[purchase_orders[result.id].material_id] > 0
    /\ \E id \in DOMAIN purchase_orders :
          purchase_orders[id].status = "Partially Delivered"

AtRiskDone ==
    result'.op \in {"get_at_risk_products", "update_owner_inventory"}

(* the status the inventory listing gives material m in the current state *)
C21_Listed(m) == material_status(current_stock[m], safety_stock[m])

(* C21: get_at_risk_products returns a product if and only if a material of *)
(* its current recipe is Low or Critical under the classifier of the        *)
(* inventory listing, on the stock at call time; every returned row names a *)
(* material of that product that is Low or Critical                         *)
C21_AtRiskIffLowOrCritical ==
    [][ AtRiskDone =>
            /\ \A p \in ProductIds :
                   (\E row \in result'.at_risk : row.product_id = p)
                   <=> (\E r \in product_material_map :
                            /\ r.product_id = p
                            /\ C21_Listed(r.material_id)
                                   \in {"Low", "Critical"})
            /\ \A row \in result'.at_risk :
                   /\ \E r \in product_material_map :
                          /\ r.product_id = row.product_id
                          /\ r.material_id = row.material_id
                   /\ C21_Listed(row.material_id) \in {"Low", "Critical"}
                   /\ row.material_status = C21_Listed(row.material_id) ]_vars

C21_Witness ==
    /\ result.op = "get_at_risk_products"
    /\ \E row \in result.at_risk : row.product_id = 1
    /\ ~ \E row \in result.at_risk : row.product_id = 2
    /\ current_stock[2] = safety_stock[2]

(* C22: the aggregate severity of an at-risk product is Critical if one of  *)
(* its contributing materials is Critical and Low otherwise: one Low and    *)
(* one Critical ingredient give Critical                                    *)
C22_WorstCaseWins ==
    [][ result'.op = "update_owner_inventory" =>
            /\ DOMAIN result'.worst =
                   {row.product_id : row \in result'.at_risk}
            /\ \A p \in DOMAIN result'.worst :
                   result'.worst[p] =
                       IF \E row \in result'.at_risk :
                              /\ row.product_id = p
                              /\ row.material_status = "Critical"
                       THEN "Critical" ELSE "Low" ]_vars

C22_Witness ==
    /\ result.op = "update_owner_inventory"
    /\ \E a, b \in result.at_risk :
          /\ a.product_id = 1
          /\ b.product_id = 1
          /\ a.material_status = "Low"
          /\ b.material_status = "Critical"
    /\ result.worst[1] = "Critical"

RecipeCalled == result'.op = "save_recipe"

(* the recipe entries that the ingredient list l describes for product p *)
C23_Entries(p, l) ==
    {[product_id |-> p, material_id |-> l[i].material_id,
      quantity_required |-> l[i].quantity] : i \in DOMAIN l}

(* C23: save_recipe(p, L) replaces the recipe of p as one transaction: on   *)
(* success the recipe of p is exactly the entries of L, one per (product,   *)
(* material) pair, and saving L again gives the same recipe; on failure,    *)
(* as when L names a material twice, every recipe is what it was            *)
C23_ReplaceAll ==
    [][ RecipeCalled =>
            LET p == result'.id
                l == result'.ingredients
            IN  /\ result'.success =>
                       /\ {r \in product_material_map' : r.product_id = p}
                              = C23_Entries(p, l)
                       /\ {r \in product_material_map' : r.product_id # p}
                              = {r \in product_material_map :
                                    r.product_id # p}
                       /\ saved_recipe(product_material_map', p, l)
                              = [failed |-> FALSE,
                                 rows |-> product_material_map']
                /\ ~ result'.success =>
                       product_material_map' = product_material_map
                /\ (\E i, j \in DOMAIN l :
                        i # j /\ l[i].material_id = l[j].material_id)
                       => ~ result'.success
                /\ \A a, b \in product_material_map' :
                       (a.product_id = b.product_id
                            /\ a.material_id = b.material_id) => a = b ]_vars

C23_Witness ==
    /\ result.op = "save_recipe"
    /\ ~ result.success
    /\ result.id = 1
    /\ Len(result.ingredients) = 2
    /\ result.ingredients[1].material_id = 1
    /\ result.ingredients[2].material_id = 1
    /\ result.ingredients[1].quantity # result.ingredients[2].quantity
    /\ {r.material_id : r \in recipe_rows(1)} = {2}

(* C24: saving an empty ingredient list is rejected or does nothing: the    *)
(* recipe entries the product had are still there afterwards                *)
C24_EmptyListKeepsRecipe ==
    [][ /\ result'.op \in {"save_recipe", "owner_save_recipe"}
        /\ result'.ingredients = <<>>
        => \A r \in product_material_map :
               r.product_id = result'.id => r \in product_material_map' ]_vars

(* C25: create_purchase_order with an existing vendor and material appends  *)
(* one PO with qty_delivered 0, remaining_qty = qty_ordered, status         *)
(* Initiated, unit_cost the given cost or, when that is omitted or zero,    *)
(* the material's cost_per_unit, and total_cost = qty_ordered x unit_cost;  *)
(* with a missing vendor or material it fails and persists nothing          *)
C25_OrderCreated ==
    [][ result'.op = "create_purchase_order" =>
            IF result'.vendor_id \in Vendors /\ result'.id \in Materials
            THEN LET new == purchase_orders'[Len(purchase_orders')]
                     given == result'.unit_cost
                 IN  /\ result'.success
                     /\ Len(purchase_orders') = Len(purchase_orders) + 1
                     /\ SubSeq(purchase_orders', 1, Len(purchase_orders))
                            = purchase_orders
                     /\ new.vendor_id = result'.vendor_id
                     /\ new.material_id = result'.id
                     /\ new.qty_ordered = result'.qty
                     /\ new.qty_delivered = 0
                     /\ new.remaining_qty = result'.qty
                     /\ new.status = "Initiated"
                     /\ given > 0 => new.unit_cost = given
                     /\ given = 0 =>
                            new.unit_cost = cost_per_unit[result'.id]
                     /\ new.total_cost = result'.qty * new.unit_cost
            ELSE /\ ~ result'.success
                 /\ purchase_orders' = purchase_orders ]_vars

C25_Witness ==
    /\ result.op = "create_purchase_order"
    /\ result.success
    /\ result.unit_cost = 0
    /\ result.qty = 2
    /\ purchase_orders[Len(purchase_orders)].unit_cost = 2
    /\ purchase_orders[Len(purchase_orders)].total_cost = 4

RECURSIVE C29_SumAmount(_)
C29_SumAmount(lines) ==
    IF lines = <<>> THEN 0
    ELSE Head(lines).total_amount + C29_SumAmount(Tail(lines))

(* C29: the total a successful record_cart_sale returns is the sum of       *)
(* total_amount over the Sale lines the call persisted, also when cart      *)
(* entries were skipped because their product does not exist                *)
C29_TotalOfPersistedLines ==
    [][ CartSaleDone => result'.total = C29_SumAmount(NewLines) ]_vars

(* C30: after any sequence of cart events every entry of the cart store has *)
(* qty >= 1, every Sale line recorded through the point of sale has         *)
(* quantity >= 1, and no sale increases a material's stock                  *)
C30_CartQtyPositive ==
    [][ /\ \A i \in DOMAIN cart_store' : cart_store'[i].qty >= 1
        /\ \A i \in DOMAIN sales' : sales'[i].quantity >= 1
        /\ \A m \in Materials : current_stock'[m] <= current_stock[m] ]_vars

C30_Witness ==
    /\ result.op = "record_cart_sale"
    /\ result.success
    /\ Len(sales) >= 2
    /\ \E m \in Materials : current_stock[m] = 0
    /\ Len(cart_store) = 1
    /\ cart_store[1].qty = 2

(* C26: two record_cart_sale calls that run at the same time and deduct the *)
(* same material lose no update: a call never holds a fetched stock that    *)
(* another call has since overwritten, and the stock is the initial stock   *)
(* less the deductions of every recorded line, clamped at zero              *)
C26_NoLostUpdate ==
    /\ \A s \in Sessions :
          calls[s].pc = "update" => calls[s].fetched = current_stock
    /\ \A m \in Materials :
          current_stock[m] = C3_Fold(MaxStock, sales, m)

C26_Witness ==
    \E s, t \in Sessions :
        /\ calls[s].pc = "update"
        /\ calls[t].pc = "insert"
        /\ \E m \in Materials :
              /\ \E r \in recipe_rows(calls[s].item.product_id) :
                    r.material_id = m
              /\ \E r \in recipe_rows(calls[t].item.product_id) :
                    r.material_id = m

(* C27: when two update_po_delivery calls on the same PO interleave, no     *)
(* step decreases qty_delivered and every delivery adds its received        *)
(* quantity both to qty_delivered and to the material's stock, so that      *)
(* qty_delivered ends at its prior value plus both quantities               *)
C27_DeliveriesAddUp ==
    [][ /\ \A id \in DOMAIN purchase_orders :
              purchase_orders'[id].qty_delivered
                  >= purchase_orders[id].qty_delivered
        /\ \A s \in Sessions :
              (/\ calls[s].op = "update_po_delivery"
               /\ calls[s].pc = "write"
               /\ calls'[s] = Idle)
              => LET id == calls[s].id
                     m == purchase_orders[id].material_id
                 IN  /\ purchase_orders'[id].qty_delivered
                            = purchase_orders[id].qty_delivered
                                  + calls[s].qty
                     /\ current_stock'[m]
                            = current_stock[m] + calls[s].qty
      ]_vars

(* C28: when cancel_po and update_po_delivery on the same PO interleave, a  *)
(* Delivered PO is never overwritten to Cancelled, and a Cancelled PO never *)
(* has its row or its material's stock changed by a delivery                *)
C28_TerminalStaysTerminal ==
    [][ \A id \in DOMAIN purchase_orders :
            /\ purchase_orders[id].status = "Delivered"
                   => purchase_orders'[id].status # "Cancelled"
            /\ purchase_orders[id].status = "Cancelled"
                   => /\ purchase_orders'[id] = purchase_orders[id]
                      /\ current_stock' = current_stock ]_vars

====
